---- MODULE Spec2Model ----
(***************************************************************************)
(* Model of the stats library (src/src/lib.rs): mean, stddev, median and   *)
(* l2 over a slice of f64.                                                  *)
(*                                                                         *)
(* f64 values are modelled as binary floating-point numbers m * 2^e with a *)
(* significand of Prec bits (f64 has 53) and the IEEE-754 default rounding *)
(* (to nearest, ties to even) after every operation.  The exponent is an   *)
(* unbounded integer: the inputs are small, so overflow and underflow are  *)
(* outside the values reached.  NaN and the infinities are not inputs.     *)
(***************************************************************************)
EXTENDS Integers, Sequences, FiniteSets

\* Significand width of the modelled floating-point format, in bits.
Prec == 5
\* Longest input slice.
MaxLen == 3

Abs(i) == IF i < 0 THEN -i ELSE i
Min(a, b) == IF a <= b THEN a ELSE b
Pow2(n) == 2 ^ n

----------------------------------------------------------------------------
\* f64: the value m * 2^e, kept canonical (m odd, or m = 0 and e = 0).

RECURSIVE Norm(_, _)
Norm(m, e) ==
    IF m = 0 THEN [m |-> 0, e |-> 0]
    ELSE IF m % 2 = 0 THEN Norm(m \div 2, e + 1)
    ELSE [m |-> m, e |-> e]

Zero == [m |-> 0, e |-> 0]
F(i) == Norm(i, 0)

\* a / den scaled by powers of two into [2^(Prec-1), 2^Prec): <<a, den, k>>
\* with (a / den) * 2^k the original quotient.
RECURSIVE Scale(_, _, _)
Scale(a, den, k) ==
    IF a >= Pow2(Prec) * den THEN Scale(a, 2 * den, k + 1)
    ELSE IF a < Pow2(Prec - 1) * den THEN Scale(2 * a, den, k - 1)
    ELSE <<a, den, k>>

\* The float nearest to (num / den) * 2^e, ties to the even significand.
Round(num, den, e) ==
    IF num = 0 THEN Zero
    ELSE LET s == Scale(Abs(num), den, 0)
             f == s[1] \div s[2]
             r == s[1] % s[2]
             up == 2 * r > s[2] \/ (2 * r = s[2] /\ f % 2 = 1)
             mag == IF up THEN f + 1 ELSE f
         IN  Norm(IF num < 0 THEN -mag ELSE mag, e + s[3])

\* x + y, x - y, x * y, x / y with one rounding each.
FAdd(x, y) ==
    LET e0 == Min(x.e, y.e)
    IN  Round(x.m * Pow2(x.e - e0) + y.m * Pow2(y.e - e0), 1, e0)

FSub(x, y) == FAdd(x, [m |-> -y.m, e |-> y.e])

FMul(x, y) == Round(x.m * y.m, 1, x.e + y.e)

FDiv(x, y) ==
    Round(IF y.m < 0 THEN -x.m ELSE x.m, Abs(y.m), x.e - y.e)

\* Floor of the square root of n, for 0 <= n < 4^(b+1), bit by bit.
RECURSIVE ISqrt(_, _, _)
ISqrt(n, b, acc) ==
    IF b < 0 THEN acc
    ELSE IF (acc + Pow2(b)) * (acc + Pow2(b)) <= n
         THEN ISqrt(n, b - 1, acc + Pow2(b))
         ELSE ISqrt(n, b - 1, acc)

\* sqrt(x) correctly rounded, for x >= 0.  The significand is scaled so that
\* the integer root has at least Prec + 2 bits; an inexact root is then
\* represented by root + 1/2, which rounds as the true root does.
FSqrt(x) ==
    IF x.m = 0 THEN Zero
    ELSE LET odd == x.e % 2 = 1
             m2 == IF odd THEN 2 * x.m ELSE x.m
             e2 == IF odd THEN x.e - 1 ELSE x.e
             m3 == m2 * Pow2(2 * (Prec + 1))
             s == ISqrt(m3, (3 * Prec + 3) \div 2 + 1, 0)
             h == e2 \div 2 - (Prec + 1)
         IN  IF s * s = m3 THEN Round(s, 1, h) ELSE Round(2 * s + 1, 2, h)

\* x.powi(2)
powi2(x) == FMul(x, x)

\* nums.len() as f64
as_f64(n) == Round(n, 1, 0)

\* a.partial_cmp(b) == Some(Greater)
Greater(a, b) ==
    LET e0 == Min(a.e, b.e)
    IN  a.m * Pow2(a.e - e0) > b.m * Pow2(b.e - e0)

----------------------------------------------------------------------------
\* Option<f64>, and the outcome of a call that does not return.
Some(v) == [tag |-> "some", val |-> v]
None == [tag |-> "none", val |-> Zero]
Panic == [tag |-> "panic", val |-> Zero]

\* for num in nums { sum += num; }
RECURSIVE mean_sum(_, _)
mean_sum(ns, sum) ==
    IF ns = <<>> THEN sum ELSE mean_sum(Tail(ns), FAdd(sum, Head(ns)))

mean(ns) ==
    IF Len(ns) = 0 THEN Some(Zero)
    ELSE Some(FDiv(mean_sum(ns, Zero), as_f64(Len(ns))))

\* for num in nums { sum += (num - mean_nums).powi(2); }
RECURSIVE stddev_sum(_, _, _)
stddev_sum(ns, mean_nums, sum) ==
    IF ns = <<>> THEN sum
    ELSE stddev_sum(Tail(ns), mean_nums,
                    FAdd(sum, powi2(FSub(Head(ns), mean_nums))))

\* stddev with the empty slice given a value, as mean and l2 give it one.
stddev_EmptyZero(ns) ==
    IF Len(ns) = 0 THEN Some(Zero)
    ELSE LET mean_nums == mean(ns).val
             sum == stddev_sum(ns, mean_nums, Zero)
         IN  Some(FSqrt(FDiv(sum, as_f64(Len(ns)))))

\* stddev with the deviations taken from 0.0 instead of from the mean.
stddev_NoMean(ns) ==
    IF Len(ns) = 0 THEN None
    ELSE Some(FSqrt(FDiv(stddev_sum(ns, Zero, Zero), as_f64(Len(ns)))))

\* stddev with the sample divisor len - 1 (kept at 1 for a single element).
stddev_Sample(ns) ==
    IF Len(ns) = 0 THEN None
    ELSE LET mean_nums == mean(ns).val
             sum == stddev_sum(ns, mean_nums, Zero)
             n == IF Len(ns) = 1 THEN 1 ELSE Len(ns) - 1
         IN  Some(FSqrt(FDiv(sum, as_f64(n))))

stddev(ns) ==
    IF Len(ns) = 0 THEN None
    ELSE LET mean_nums == mean(ns).val
             sum == stddev_sum(ns, mean_nums, Zero)
         IN  Some(FSqrt(FDiv(sum, as_f64(Len(ns)))))

\* for num in nums { sum += num.powi(2); }
RECURSIVE l2_sum(_, _)
l2_sum(ns, sum) ==
    IF ns = <<>> THEN sum ELSE l2_sum(Tail(ns), FAdd(sum, powi2(Head(ns))))

\* l2 without the final square root.
l2_NoSqrt(ns) ==
    IF Len(ns) = 0 THEN Some(Zero)
    ELSE Some(l2_sum(ns, Zero))

l2(ns) ==
    IF Len(ns) = 0 THEN Some(Zero)
    ELSE Some(FSqrt(l2_sum(ns, Zero)))

----------------------------------------------------------------------------
\* nums.sort_by(|a, b| a.partial_cmp(b).unwrap()): a stable sort, so elements
\* that compare equal keep their order.  insert puts x after every element
\* that is not greater than it.
RECURSIVE insert(_, _)
insert(sorted, x) ==
    IF sorted = <<>> THEN <<x>>
    ELSE IF Greater(Head(sorted), x) THEN <<x>> \o sorted
    ELSE <<Head(sorted)>> \o insert(Tail(sorted), x)

RECURSIVE sort_by(_, _)
sort_by(ns, sorted) ==
    IF ns = <<>> THEN sorted ELSE sort_by(Tail(ns), insert(sorted, Head(ns)))

\* nums.to_owned(): a new Vec with the elements of the slice.
to_owned(ns) == [i \in 1..Len(ns) |-> ns[i]]

\* ((nums.len() / 2) as f64).floor() as usize: the usize division truncates,
\* the conversions to f64 and back are exact and floor changes nothing.
mid_of(n) == n \div 2

\* median sorting the caller's slice in place instead of a copy.
median_InPlace(ns, checks) ==
    IF Len(ns) = 0
    THEN [ret |-> None, slice |-> ns, owned |-> <<>>, index |-> 0]
    ELSE LET owned == sort_by(ns, <<>>)
             index == mid_of(Len(owned)) - 1
         IN  [ret |-> IF index < 0 THEN Panic ELSE Some(owned[index + 1]),
              slice |-> owned, owned |-> owned, index |-> index]

\* median indexing the copy without sorting it.
median_Unsorted(ns, checks) ==
    IF Len(ns) = 0
    THEN [ret |-> None, slice |-> ns, owned |-> <<>>, index |-> 0]
    ELSE LET owned == to_owned(ns)
             index == mid_of(Len(owned)) - 1
         IN  [ret |-> IF index < 0 THEN Panic ELSE Some(owned[index + 1]),
              slice |-> ns, owned |-> owned, index |-> index]

\* median(nums).  The record is the call's effect: ret, the value returned
\* (or Panic); slice, the caller's slice after the call; owned, the private
\* Vec; index, the mathematical value of `mid as usize - 1`.  When mid is 0
\* the subtraction overflows: with overflow checks (debug) it panics, without
\* (release) it wraps to usize::MAX, which is past the end of every Vec, and
\* the indexing panics.
median(ns, checks) ==
    IF Len(ns) = 0
    THEN [ret |-> None, slice |-> ns, owned |-> <<>>, index |-> 0]
    ELSE LET owned == sort_by(to_owned(ns), <<>>)
             mid == mid_of(Len(owned))
             index == mid - 1
             wrapped == index < 0
             inbounds == ~wrapped /\ index < Len(owned)
         IN  [ret |-> IF wrapped /\ checks THEN Panic
                      ELSE IF ~inbounds THEN Panic
                      ELSE Some(owned[index + 1]),
              slice |-> ns, owned |-> owned, index |-> index]

----------------------------------------------------------------------------
\* The f64 values the inputs are drawn from.
Values == {F(-31), F(-3), F(0), F(4), F(11), F(31)}

RECURSIVE SeqsOfLen(_)
SeqsOfLen(n) ==
    IF n = 0 THEN {<<>>}
    ELSE {Append(s, v) : s \in SeqsOfLen(n - 1), v \in Values}

Inputs == UNION {SeqsOfLen(n) : n \in 0..MaxLen}

VARIABLES
    nums,     \* the caller's slice
    checks,   \* whether the build has integer overflow checks
    fn,       \* the function called last, "none" before any call
    result,   \* what that call returned, or Panic
    owned,    \* median's private sorted Vec in that call
    index     \* median's index expression in that call

vars == <<nums, checks, fn, result, owned, index>>

Init ==
    /\ nums \in Inputs
    /\ checks \in BOOLEAN
    /\ fn = "none"
    /\ result = None
    /\ owned = <<>>
    /\ index = 0

call_mean ==
    /\ fn' = "mean"
    /\ result' = mean(nums)
    /\ owned' = <<>>
    /\ index' = 0
    /\ UNCHANGED <<nums, checks>>

call_stddev ==
    /\ fn' = "stddev"
    /\ result' = stddev(nums)
    /\ owned' = <<>>
    /\ index' = 0
    /\ UNCHANGED <<nums, checks>>

call_median ==
    /\ fn' = "median"
    /\ LET c == median(nums, checks)
       IN  /\ result' = c.ret
           /\ nums' = c.slice
           /\ owned' = c.owned
           /\ index' = c.index
    /\ UNCHANGED checks

call_l2 ==
    /\ fn' = "l2"
    /\ result' = l2(nums)
    /\ owned' = <<>>
    /\ index' = 0
    /\ UNCHANGED <<nums, checks>>

Next == call_mean \/ call_stddev \/ call_median \/ call_l2

Spec == Init /\ [][Next]_vars

----------------------------------------------------------------------------
\* Exact (unrounded) arithmetic on values m * 2^e, to state what the
\* functions are meant to compute.
XAdd(x, y) ==
    LET e0 == Min(x.e, y.e)
    IN  Norm(x.m * Pow2(x.e - e0) + y.m * Pow2(y.e - e0), e0)

XSub(x, y) == XAdd(x, [m |-> -y.m, e |-> y.e])

XMul(x, y) == Norm(x.m * y.m, x.e + y.e)

\* An exact value that is a float of the format: no rounding was needed.
Fits(x) == Abs(x.m) < Pow2(Prec)

\* The exact sum of (x_i - m)^2 over the elements of ns.
RECURSIVE SumSqDev(_, _)
SumSqDev(ns, m) ==
    IF ns = <<>> THEN Zero
    ELSE XAdd(SumSqDev(SubSeq(ns, 1, Len(ns) - 1), m),
              XMul(XSub(ns[Len(ns)], m), XSub(ns[Len(ns)], m)))

\* The rearrangements of ns.
Permutations(ns) ==
    LET n == Len(ns)
        bij == {f \in [1..n -> 1..n] : \A i, j \in 1..n : i # j => f[i] # f[j]}
    IN  {[i \in 1..n |-> ns[f[i]]] : f \in bij}

\* ns in ascending order (the rearrangements that are ascending differ only
\* in the order of equal elements, which are equal values here).
AscendingCopy(ns) ==
    CHOOSE s \in Permutations(ns) :
        \A i, j \in 1..Len(s) : i < j => ~Greater(s[i], s[j])

\* ns is one value repeated, at least once.
Repeated(ns) == Len(ns) > 0 /\ \A i \in 1..Len(ns) : ns[i] = ns[1]

\* Every step of stddev(ns) is exact: the deviations from the mean that mean
\* returned, their squares, the running sums, the quotient by the length and
\* its square root.
StddevExact(ns) ==
    LET m == mean(ns).val
        n == Len(ns)
        S == SumSqDev(ns, m)
        q == FDiv(S, as_f64(n))
        v == FSqrt(q)
    IN  /\ \A i \in 1..n :
              /\ Fits(XSub(ns[i], m))
              /\ Fits(XMul(XSub(ns[i], m), XSub(ns[i], m)))
              /\ Fits(SumSqDev(SubSeq(ns, 1, i), m))
        /\ XMul(q, as_f64(n)) = S
        /\ XMul(v, v) = q

\* Every step of l2(ns) is exact: the squares, the running sums and the
\* square root of the total.
L2Exact(ns) ==
    LET S == SumSqDev(ns, Zero)
        v == FSqrt(S)
    IN  /\ \A i \in 1..Len(ns) :
              /\ Fits(XMul(ns[i], ns[i]))
              /\ Fits(SumSqDev(SubSeq(ns, 1, i), Zero))
        /\ XMul(v, v) = S

----------------------------------------------------------------------------
\* C1: no call raises a fatal error: every call returns a present value or
\* absent, and for a non-empty input the index median reads its sorted copy
\* at lies within 0..n-1.
C1_NoFatalError ==
    /\ result.tag # "panic"
    /\ (fn = "median" /\ nums # <<>>) => index \in 0..(Len(nums) - 1)

\* C2: for every non-empty input of length n, median returns a present
\* result, the element at zero-based index floor(n/2) - 1 of the ascending
\* copy of the input.
C2_SelectionRule ==
    (fn = "median" /\ nums # <<>>) =>
        /\ result.tag = "some"
        /\ result.val = AscendingCopy(nums)[(Len(nums) \div 2 - 1) + 1]

\* C3: on the empty sequence mean and l2 return exactly 0.0 and stddev and
\* median return absent; on every non-empty sequence mean, l2 and stddev
\* return a present result.
C3_EmptyPolicy ==
    /\ fn \in {"mean", "l2"} =>
          /\ result.tag = "some"
          /\ nums = <<>> => result = Some(Zero)
    /\ fn = "stddev" =>
          /\ nums = <<>> => result = None
          /\ nums # <<>> => result.tag = "some"
    /\ (fn = "median" /\ nums = <<>>) => result = None

\* stddev was called on the empty sequence and returned absent.
C3_Witness == fn = "stddev" /\ nums = <<>> /\ result = None

\* C4: the value median returns for a non-empty input of length n has at
\* least n/2 of the input's elements less than or equal to it.
C4_HalfAtOrBelow ==
    (fn = "median" /\ result.tag = "some") =>
        2 * Cardinality({i \in 1..Len(nums) : ~Greater(nums[i], result.val)})
            >= Len(nums)

\* C5: median returns the median of the input, the lower of the two middle
\* elements for even n and the middle element (zero-based index (n-1)/2) of
\* the sorted input for odd n.
C5_DocumentedMedian ==
    (fn = "median" /\ nums # <<>>) =>
        LET n == Len(nums)
            k == IF n % 2 = 1 THEN (n - 1) \div 2 ELSE n \div 2 - 1
        IN  /\ result.tag = "some"
            /\ result.val = AscendingCopy(nums)[k + 1]

\* C6: no call changes the caller's sequence: it has the same elements in
\* the same order after the call as before it.
C6_InputUnchanged == [][nums' = nums]_vars

\* median was called on a sequence that is not in ascending order; its
\* private copy is sorted and differs from the caller's sequence.
C6_Witness ==
    /\ fn = "median"
    /\ Len(nums) = MaxLen
    /\ owned = AscendingCopy(nums)
    /\ owned # nums

\* The result of the function called last, on the sequence p.
ResultOn(p) ==
    CASE fn = "mean" -> mean(p)
      [] fn = "stddev" -> stddev(p)
      [] fn = "l2" -> l2(p)
      [] fn = "median" -> median(p, checks).ret
      [] OTHER -> result

\* C7 as stated: mean, stddev, l2 and median each return the same result on
\* every permutation of the input as on the input.
C7_OrderIndependent == \A p \in Permutations(nums) : ResultOn(p) = result

\* C7: median returns the same result on every permutation of the input;
\* mean, stddev and l2 do so for inputs of at most two elements (floating-
\* point addition is commutative but not associative).
C7_MedianOrderIndependent ==
    (fn = "median" \/ Len(nums) <= 2) =>
        \A p \in Permutations(nums) : ResultOn(p) = result

\* median returned a value for a sequence that has another rearrangement,
\* on which it returns the same value.
C7_Witness ==
    /\ fn = "median"
    /\ result.tag = "some"
    /\ Len(nums) = MaxLen
    /\ \E p \in Permutations(nums) : p # nums /\ median(p, checks).ret = result

\* C8 as stated: stddev of n > 0 copies of any value x is exactly 0.0.
C8_RepeatedIsZero ==
    (fn = "stddev" /\ Repeated(nums)) => result = Some(Zero)

\* C8: stddev of n > 0 copies of x is a present result, and it is exactly
\* 0.0 whenever mean returns exactly x for that sequence.
C8_RepeatedIsZeroWhenMeanExact ==
    (fn = "stddev" /\ Repeated(nums)) =>
        /\ result.tag = "some"
        /\ mean(nums) = Some(nums[1]) => result = Some(Zero)

\* stddev returned 0.0 for three copies of a non-zero value.
C8_Witness ==
    /\ fn = "stddev"
    /\ Repeated(nums)
    /\ Len(nums) = 3
    /\ nums[1] # Zero
    /\ mean(nums) = Some(nums[1])
    /\ result = Some(Zero)

\* C9 as stated: for every non-empty input, stddev returns the non-negative
\* r with r^2 * n equal to the sum of (x_i - m)^2, m the result of mean.
C9_PopulationStddev ==
    (fn = "stddev" /\ nums # <<>>) =>
        /\ result.tag = "some"
        /\ result.val.m >= 0
        /\ XMul(XMul(result.val, result.val), as_f64(Len(nums)))
              = SumSqDev(nums, mean(nums).val)

\* C9: for every non-empty input, stddev returns a present non-negative r,
\* and r^2 * n equals the sum of (x_i - m)^2, m the result of mean and the
\* divisor n, whenever no step of the computation rounds.
C9_PopulationStddevWhenExact ==
    (fn = "stddev" /\ nums # <<>>) =>
        /\ result.tag = "some"
        /\ result.val.m >= 0
        /\ StddevExact(nums) =>
              XMul(XMul(result.val, result.val), as_f64(Len(nums)))
                  = SumSqDev(nums, mean(nums).val)

\* stddev returned a non-zero value for an input on which no step rounds.
C9_Witness ==
    /\ fn = "stddev"
    /\ Len(nums) >= 2
    /\ StddevExact(nums)
    /\ result.tag = "some"
    /\ result.val.m > 0

\* C10 as stated: for every input, l2 returns the non-negative r with r^2
\* equal to the sum of the squares of the elements.
C10_EuclideanNorm ==
    fn = "l2" =>
        /\ result.tag = "some"
        /\ result.val.m >= 0
        /\ XMul(result.val, result.val) = SumSqDev(nums, Zero)

\* C10: for every input, l2 returns a present non-negative r, and r^2
\* equals the sum of the squares of the elements, whatever their signs,
\* whenever no step of the computation rounds.
C10_EuclideanNormWhenExact ==
    fn = "l2" =>
        /\ result.tag = "some"
        /\ result.val.m >= 0
        /\ L2Exact(nums) =>
              XMul(result.val, result.val) = SumSqDev(nums, Zero)

\* l2([-3.0, 4.0]) returned 5.0.
C10_Witness ==
    /\ fn = "l2"
    /\ nums = <<F(-3), F(4)>>
    /\ result = Some(F(5))

====
